---- MODULE Spec2Model ----
(***************************************************************************)
(* Model of updateapp/main.py of steam-limiter: the classification of a    *)
(* client address into an ISP index (find_netblock) and the composition    *)
(* of the rule bundle for that ISP (bundle).                               *)
(*                                                                         *)
(* Text is a sequence of one-character strings, so that splitting,         *)
(* upper-casing, prefix tests and decimal parsing are computed and not     *)
(* assumed.  The alphabet of the texts is the digits, the letters, '.'     *)
(* and ':'.  A Python integer is unbounded; it is kept here as two limbs   *)
(* (hi * 65536 + lo), which is exact for every value the model builds.     *)
(***************************************************************************)
EXTENDS Integers, Sequences, FiniteSets, TLC

\* ------------------------------------------------------------------ bounds
\* the largest number of ranges of a range table
MaxRanges == 3
\* the number of consecutive addresses the range tables are built over
PoolSize == 4

\* -------------------------------------------------------------------- text
Digit == <<"0", "1", "2", "3", "4", "5", "6", "7", "8", "9">>

LowerCase == <<"a", "b", "c", "d", "e", "f", "g", "h", "i", "j", "k", "l", "m",
               "n", "o", "p", "q", "r", "s", "t", "u", "v", "w", "x", "y", "z">>

UpperCase == <<"A", "B", "C", "D", "E", "F", "G", "H", "I", "J", "K", "L", "M",
               "N", "O", "P", "Q", "R", "S", "T", "U", "V", "W", "X", "Y", "Z">>

IsDigit(c) == \E i \in 1..10 : Digit[i] = c

DigitVal(c) == (CHOOSE i \in 1..10 : Digit[i] = c) - 1

\* str.upper (): every lower-case letter becomes its capital, the rest stays
UpperChar(c) ==
    IF \E i \in 1..26 : LowerCase[i] = c
    THEN UpperCase[CHOOSE i \in 1..26 : LowerCase[i] = c]
    ELSE c

\* the text is compared as it came
upper_asis(text) == text

upper(text) == [i \in 1..Len(text) |-> UpperChar(text[i])]

\* str.startswith (prefix)
startswith(text, prefix) ==
    /\ Len(prefix) <= Len(text)
    /\ \A i \in 1..Len(prefix) : text[i] = prefix[i]

\* sep in text
Contains(text, sep) == \E i \in 1..Len(text) : text[i] = sep

\* string.split (text, sep): the fields between the separators; a text
\* without separator, the empty text included, is one field
RECURSIVE split(_, _)
split(text, sep) ==
    IF ~ Contains(text, sep)
    THEN <<text>>
    ELSE LET i == CHOOSE j \in 1..Len(text) :
                      /\ text[j] = sep
                      /\ \A k \in 1..(j - 1) : text[k] # sep
         IN  <<SubSeq(text, 1, i - 1)>> \o split(SubSeq(text, i + 1, Len(text)), sep)

\* int (item) succeeds on a non-empty run of digits; on every other text of
\* the alphabet it raises ValueError
IntOk(item) == Len(item) > 0 /\ \A i \in 1..Len(item) : IsDigit(item[i])

RECURSIVE int(_)
int(item) ==
    IF Len(item) = 0 THEN 0
    ELSE 10 * int(SubSeq(item, 1, Len(item) - 1)) + DigitVal(item[Len(item)])

\* ----------------------------------------------------------------- numbers
Limb == 65536

Zero == [hi |-> 0, lo |-> 0]

\* the shift is left out
ShiftAdd_noshift(total, item) ==
    LET t == total.lo + item
    IN  [hi |-> total.hi + (t \div Limb), lo |-> t % Limb]

\* (total << 8) + item
ShiftAdd(total, item) ==
    LET t == total.lo * 256 + item
    IN  [hi |-> total.hi * 256 + (t \div Limb), lo |-> t % Limb]

\* a >= b
Geq(a, b) == a.hi > b.hi \/ (a.hi = b.hi /\ a.lo >= b.lo)

\* the value o1*2^24 + o2*2^16 + o3*2^8 + o4 of four octets
Pack(o1, o2, o3, o4) == [hi |-> o1 * 256 + o2, lo |-> o3 * 256 + o4]

RECURSIVE SumFields(_, _)
SumFields(fields, total) ==
    IF fields = <<>> THEN total
    ELSE SumFields(Tail(fields), ShiftAdd(total, int(Head(fields))))

\* stringip_to_number: <<n>> when it returns n, <<>> when int () raises
stringip_to_number(text) ==
    LET fields == split(text, ".")
    IN  IF \A i \in 1..Len(fields) : IntOk(fields[i])
        THEN <<SumFields(fields, Zero)>>
        ELSE <<>>


\* -------------------------------------------------------------- the tables
\* an entry points at a reserved slot of isps
ipv6_prefixes_unregistered == <<
    <<<<"2", "0", "0", "1", ":", "4", "4", "0", "0", ":">>, 0>>,
    <<<<"2", "0", "0", "1", ":", "4", "4", "7", "8", ":">>, 12>>,
    <<<<"2", "0", "0", "1", ":", "4", "4", "7", "9", ":">>, 12>>,
    <<<<"2", "0", "0", "1", ":", "4", "4", "B", "8", ":">>, 11>>,
    <<<<"2", "4", "0", "6", ":", "E", "0", "0", "0", ":">>, 18>> >>

\* an entry is a prefix of another entry of a different ISP
ipv6_prefixes_overlap == <<
    <<<<"2", "0", "0", "1", ":", "4", "4">>, 0>>,
    <<<<"2", "0", "0", "1", ":", "4", "4", "7", "8", ":">>, 12>>,
    <<<<"2", "0", "0", "1", ":", "4", "4", "7", "9", ":">>, 12>>,
    <<<<"2", "0", "0", "1", ":", "4", "4", "B", "8", ":">>, 11>>,
    <<<<"2", "4", "0", "6", ":", "E", "0", "0", "0", ":">>, 2>> >>

\* ipv6_prefixes, in the order of the literal
ipv6_prefixes == <<
    <<<<"2", "0", "0", "1", ":", "4", "4", "0", "0", ":">>, 0>>,
    <<<<"2", "0", "0", "1", ":", "4", "4", "7", "8", ":">>, 12>>,
    <<<<"2", "0", "0", "1", ":", "4", "4", "7", "9", ":">>, 12>>,
    <<<<"2", "0", "0", "1", ":", "4", "4", "B", "8", ":">>, 11>>,
    <<<<"2", "4", "0", "6", ":", "E", "0", "0", "0", ":">>, 2>> >>

\* The order in which ipv6_prefixes.items () hands out the entries is not
\* defined by the language.  Two orders are taken, the order of the literal
\* and its reverse: between them every two entries come in both orders.
ItemOrders ==
    {[i \in 1..Len(ipv6_prefixes) |-> i],
     [i \in 1..Len(ipv6_prefixes) |-> Len(ipv6_prefixes) + 1 - i]}

WebAfricaRule == "*:27030=steam.wa.co.za,steam2.wa.co.za;content?.steampowered.com=steam.wa.co.za,steam2.wa.co.za"

InternodeRule == "*:27030=49.143.234.14,files-oc-syd.games.on.net;content?.steampowered.com=49.143.234.14,files-oc-syd.games.on.net"

\* the 'test' entry of the South African records
DualIspTest(name) ==
    ("report" :> TRUE) @@
    ("steam.wa.co.za icmp *.wa.co.za" :>
        (0 :> [ispname |-> name, filterrule |-> WebAfricaRule]))

isps ==
    (-1 :> [name |-> "Unknown", server |-> "203.167.129.4",
            filter |-> "# No specific content server for your ISP"]) @@
    (0 :> [name |-> "TelstraClear New Zealand", server |-> "203.167.129.4",
           filter |-> "*:27030=wlgwpstmcon01.telstraclear.co.nz"]) @@
    (1 :> [name |-> "Orcon New Zealand", server |-> "0.0.0.0",
           filter |-> "# Orcon no longer have a Steam server"]) @@
    (2 :> [name |-> "Snap! New Zealand", server |-> "0.0.0.0",
           filter |-> "# Snap! no longer have a Steam server"]) @@
    (3 :> [name |-> "Slingshot New Zealand", server |-> "119.224.142.146",
           filter |-> "*:27030=119.224.142.146"]) @@
    (4 :> [name |-> "Lightstream, Waikato New Zealand", server |-> "202.124.127.66",
           filter |-> "*:27030=202.124.127.66"]) @@
    (5 :> [name |-> "Xnet/WorldxChange New Zealand", server |-> "58.28.25.146",
           filter |-> "*:27030=58.28.25.146"]) @@
    (6 :> [name |-> "ACSData, Wellington NZ", server |-> "0.0.0.0",
           filter |-> "# No known unmetered Steam server"]) @@
    (7 :> [name |-> "Vodafone New Zealand", server |-> "0.0.0.0",
           filter |-> "# No known unmetered Steam server"]) @@
    (8 :> [name |-> "Telecom/XTRA New Zealand", server |-> "0.0.0.0",
           filter |-> "# No known unmetered Steam server"]) @@
    (9 :> [name |-> "InSPire New Zealand", server |-> "0.0.0.0",
           filter |-> "# Please contribute a server IP for InSPire"]) @@
    (10 :> [name |-> "Telstra BigPond Australia", server |-> "0.0.0.0",
            filter |-> "*:27030=203.39.198.136;content?.steampowered.com=203.39.198.136"]) @@
    (11 :> [name |-> "Internode Australia", server |-> "0.0.0.0",
            filter |-> InternodeRule, allow |-> "//steam.cdn.on.net=*"]) @@
    (12 :> [name |-> "iiNet Australia", server |-> "0.0.0.0",
            filter |-> "*:27030=steam.cdn.on.net;content?.steampowered.com=",
            allow |-> "//steam.cdn.on.net=*"]) @@
    (13 :> [name |-> "Optus Australia", server |-> "0.0.0.0",
            filter |-> "*:27030=49.143.234.6,49.143.234.14;content?.steampowered.com=49.143.234.6,49.143.234.14"]) @@
    (14 :> [name |-> "iPrimus Australia", server |-> "0.0.0.0",
            filter |-> InternodeRule, allow |-> "//steam.cdn.on.net=*"]) @@
    (15 :> [name |-> "Westnet Internet Services (Perth, WA)", server |-> "0.0.0.0",
            filter |-> InternodeRule, allow |-> "//steam.cdn.on.net=*"]) @@
    (16 :> [name |-> "Adam Internet (Adelaide, SA)", server |-> "0.0.0.0",
            filter |-> InternodeRule, allow |-> "//steam.cdn.on.net=*"]) @@
    (17 :> [name |-> "EAccess Broadband, Australia", server |-> "0.0.0.0",
            filter |-> "# No known unmetered Steam server"]) @@
    (30 :> [name |-> "Internet Solutions (Johannesburg, South Africa)",
            server |-> "196.38.180.3", filter |-> "*:27030=steam.isgaming.co.za",
            test |-> DualIspTest("WebAfrica/IS dual ISP")]) @@
    (31 :> [name |-> "webafrica (Cape Town, South Africa)", server |-> "41.185.24.21",
            filter |-> WebAfricaRule]) @@
    (32 :> [name |-> "Telkom SAIX, South Africa", server |-> "0.0.0.0",
            filter |-> "# No known unmetered Steam server",
            test |-> DualIspTest("WebAfrica/SAIX dual ISP")]) @@
    (33 :> [name |-> "MWeb, South Africa", server |-> "196.28.69.201",
            filter |-> "*:27030=196.28.69.201,196.28.169.201",
            test |-> DualIspTest("WebAfrica/MWeb dual ISP")]) @@
    (34 :> [name |-> "Cybersmart, South Africa", server |-> "0.0.0.0",
            filter |-> "# No known Steam server for Cybersmart",
            test |-> DualIspTest("WebAfrica/Cybersmart dual ISP")]) @@
    (40 :> [name |-> "Vodafone Iceland", server |-> "193.4.194.101",
            filter |-> "*:27030=193.4.194.101",
            test |-> ("report" :> TRUE) @@
                     ("193.4.194.101 80" :>
                        (0 :> [filterrule |-> "*:27030=193.4.194.101;content?.steampowered.com=193.4.194.101"]))]) @@
    (50 :> [name |-> "Google, Inc", server |-> "0.0.0.0",
            filter |-> "# What Steam server do Google use...?"]) @@
    (60 :> [name |-> "Comcast Communications", server |-> "0.0.0.0",
            filter |-> "# No rules for Comcast, please suggest some!"]) @@
    (61 :> [name |-> "AT&T Internet Services", server |-> "0.0.0.0",
            filter |-> "# No rules for AT&T, please suggest some!"])

code_file_base == "http://steam-limiter.googlecode.com/files/"

latest_version == "0.6.1.0"

latest_file == "steamlimit-" \o latest_version \o ".exe"


\* ------------------------------------------------------------ range tables
\* The module ip_match is not among the sources.  Its ip_table is a list of
\* tuples (low, high, isp), sorted by low, the ranges pairwise disjoint and
\* low <= high in each.

\* the last octet of the first address of the pool 203.167.129.k
PoolFirst == 3

PoolOctets == PoolFirst..(PoolFirst + PoolSize - 1)

PoolAddr(k) == Pack(203, 167, 129, k)

\* the ISP indices of the generated tables: a plain record, and one with a
\* 'test' entry
TableIsps == {0, 30}

\* every sorted table of at most n disjoint ranges whose bounds lie in the
\* pool at or after the octet first
RECURSIVE TablesFrom(_, _)
TablesFrom(first, n) ==
    IF n = 0 THEN {<<>>}
    ELSE {<<>>} \cup
         UNION {UNION {UNION {{<<<<PoolAddr(l), PoolAddr(h), i>>>> \o t :
                                    t \in TablesFrom(h + 1, n - 1)} :
                              i \in TableIsps} :
                       h \in {k \in PoolOctets : k >= l}} :
                l \in {k \in PoolOctets : k >= first}}

Tables == TablesFrom(PoolFirst, MaxRanges)

\* the table of the deployed configuration, as far as the scenarios of the
\* specification tell: 203.167.129.4 lies in a range of ISP 0, the server of
\* ISP 30 in a range of ISP 30, and 8.8.8.8 in no range
ip_table == <<
    <<Pack(196, 38, 180, 0), Pack(196, 38, 180, 255), 30>>,
    <<Pack(203, 167, 128, 0), Pack(203, 167, 255, 255), 0>> >>

\* ------------------------------------------------------------------ inputs
Loopback == <<"1", "2", "7", ".", "0", ".", "0", ".", "1">>

Substitute == <<"2", "0", "3", ".", "1", "6", "7", ".", "1", "2", "9", ".", "4">>

\* decimal digits of a number below 1000
Dec(n) ==
    IF n < 10 THEN <<Digit[n + 1]>>
    ELSE IF n < 100 THEN <<Digit[(n \div 10) + 1], Digit[(n % 10) + 1]>>
    ELSE <<Digit[(n \div 100) + 1], Digit[((n \div 10) % 10) + 1], Digit[(n % 10) + 1]>>

\* the text of four octets
Dotted(q) == Dec(q[1]) \o <<".">> \o Dec(q[2]) \o <<".">> \o Dec(q[3]) \o <<".">> \o Dec(q[4])

PoolQuad(k) == <<203, 167, 129, k>>

PoolText(k) == Dotted(PoolQuad(k))

\* well-formed dotted quads outside the pool
OtherQuads == {<<8, 8, 8, 8>>, <<196, 38, 180, 3>>, <<1, 0, 0, 0>>, <<127, 0, 0, 1>>}

Quads == {PoolQuad(k) : k \in PoolOctets} \cup OtherQuads

\* 203.167.128.260 packs to the number of 203.167.129.4
MalformedQuad == <<"2", "0", "3", ".", "1", "6", "7", ".", "1", "2", "8", ".", "2", "6", "0">>

OutsideQuad == Dotted(<<8, 8, 8, 8>>)

InternodeText == <<"2", "0", "0", "1", ":", "4", "4", "b", "8", ":", "1", ":", ":", "2">>

\* texts without colon that are not four octets in 0..255: an octet out of
\* range (three of them), three fields, five fields, a letter, an empty
\* field, the empty text
Malformed == {<<"9", "9", "9", ".", "1", ".", "1", ".", "1">>, <<"0", ".", "2", "5", "6", ".", "0", ".", "0">>, <<"2", "0", "3", ".", "1", "6", "7", ".", "1", "2", "8", ".", "2", "6", "0">>, <<"1", ".", "2", ".", "3">>, <<"0", ".", "1", ".", "2", ".", "3", ".", "4">>, <<"a", ".", "b", ".", "c", ".", "d">>, <<"1", ".", ".", "2", ".", "3">>, <<>>}

\* texts with a colon: six under a configured prefix, in either letter case,
\* and three under none
Ipv6Texts == {<<"2", "0", "0", "1", ":", "4", "4", "7", "8", ":", "A", "B", "C", "D", ":", ":", "1">>, <<"2", "0", "0", "1", ":", "4", "4", "7", "8", ":", "a", "b", "c", "d", ":", ":", "1">>,
              <<"2", "0", "0", "1", ":", "4", "4", "b", "8", ":", "1", ":", ":", "2">>, <<"2", "4", "0", "6", ":", "e", "0", "0", "0", ":", ":", "1">>,
              <<"2", "0", "0", "1", ":", "4", "4", "0", "0", ":", ":", "5">>, <<"2", "0", "0", "1", ":", "4", "4", "7", "9", ":", "f", ":", ":">>,
              <<"f", "e", "8", "0", ":", ":", "1">>, <<"2", "0", "0", "1", ":", "4", "4", "7">>, <<":", ":", "2", "0", "0", "1", ":", "4", "4", "7", "8", ":">>}

Texts == {Dotted(q) : q \in Quads} \cup Malformed \cup Ipv6Texts

\* an argument of find_netblock: a str, a unicode or an integer
StrArg(t) == [type |-> "str", text |-> t, num |-> Zero]

UnicodeArg(t) == [type |-> "unicode", text |-> t, num |-> Zero]

IntArg(n) == [type |-> "int", text |-> <<>>, num |-> n]

IsText(a) == a.type = "str" \/ a.type = "unicode"

\* what a request can carry as its address: the 'ip' parameter is unicode,
\* remote_addr is a str
Sources == {StrArg(t) : t \in Texts} \cup
           {UnicodeArg(t) : t \in {Loopback, Substitute, OutsideQuad, InternodeText, MalformedQuad}}

Args == Sources \cup {IntArg(PoolAddr(k)) : k \in PoolOctets} \cup
        {IntArg(Pack(8, 8, 8, 8)), IntArg(Pack(196, 38, 180, 3))}

\* the 'direct' parameter of a download request: absent or given
Directs == {<<>>, <<"about">>, <<"0">>, <<"1">>}

\* the 'cb' parameter: absent, empty, or the name of a callback
Callbacks == {<<>>, <<"">>, <<"f">>}

\* the addresses of the download requests: the substitute for the loopback
\* address, one address of no range, one text int () fails on
DownloadSources == {StrArg(Substitute), StrArg(OutsideQuad),
                    UnicodeArg(<<"a", ".", "b", ".", "c", ".", "d">>)}

\* what xmpp.send_message can come back with
XmppStatuses == {"NO_ERROR", "INVALID_JID", "OTHER_ERROR"}

\* the form fields of the posts
FormTexts == {"", "slow"}

\* the X-AppEngine-Country header: absent, empty, or a country code
Headers == {<<>>, <<"">>, <<"NZ">>}


\* ------------------------------------------------------------------- state
VARIABLES
    table,       \* ip_match.ip_table
    pc,          \* "idle", or "loop" inside the search loop of find_netblock
    caller,      \* "find_netblock" for a direct call, "bundle" for a request
    arg,         \* the argument find_netblock was called with
    hdr,         \* the country header of the request
    ip,          \* the local ip of find_netblock
    ipv4,        \* the local ipv4
    low, high,   \* the bounds of the search
    mid,         \* the index last inspected
    ret,         \* <<r>> once find_netblock has returned r
    exc,         \* the exception the call ended in, "" for none
    log,         \* the entries the call has logged
    result,      \* <<b>> once bundle has returned b
    remembered,  \* <<[arg, ret]>>: an earlier call and what it returned
    direct,      \* the 'direct' parameter of a download request
    cb,          \* the 'cb' parameter of the request
    response,    \* what DownloadHandler.get has done to its response
    status,      \* the status xmpp.send_message returned to notifyOwner
    sent         \* what notifyOwner has sent, in order

vars == <<table, pc, caller, arg, hdr, ip, ipv4, low, high, mid, ret, exc, log,
          result, remembered, direct, cb, response, status, sent>>

\* ------------------------------------------------------------------ bundle
\* the header is not looked at
CountryOf_unknown(h) == "Unknown"

\* country = header or 'Unknown'
CountryOf(h) == IF h # <<>> /\ h[1] # "" THEN h[1] ELSE "Unknown"

\* the server is given whether or not there is a filter rule
FilterRule_server(isp) == isp.server

\* isp.get ('filter') or isp ['server']
FilterRule(isp) ==
    IF "filter" \in DOMAIN isp /\ isp.filter # "" THEN isp.filter ELSE isp.server

\* the allow rule is dropped
AllowRule_none(isp) == ""

\* isp.get ('allow') or ''
AllowRule(isp) ==
    IF "allow" \in DOMAIN isp /\ isp.allow # "" THEN isp.allow ELSE ""

\* test = isp.get ('test'); if test: an absent and an empty dict are both false
HasTest(isp) == "test" \in DOMAIN isp /\ DOMAIN isp.test # {}

\* the fields bundle always sets
Always(isp, country) ==
    [latest |-> latest_version,
     download |-> code_file_base \o latest_file,
     country |-> country,
     ispname |-> isp.name,
     filterip |-> isp.server,
     filterrule |-> FilterRule(isp),
     allow |-> AllowRule(isp)]

\* a record without 'test' is given an empty one
Compose_emptytest(isp, country) ==
    Always(isp, country) @@ ("test" :> IF HasTest(isp) THEN isp.test ELSE <<>>)

\* the dict bundle returns for the record isp
Compose(isp, country) ==
    IF HasTest(isp)
    THEN Always(isp, country) @@ ("test" :> isp.test)
    ELSE Always(isp, country)

\* ----------------------------------------------------------- find_netblock
\* the loopback literal is looked up as it is
Remap_none(a) == a

\* if ip == '127.0.0.1': ip = '203.167.129.4'
Remap(a) == IF IsText(a) /\ a.text = Loopback THEN StrArg(Substitute) ELSE a

\* the for loop over the prefixes in the order o: <<isp>> of the first entry
\* the text starts with, <<>> when the loop runs out
RECURSIVE Scan(_, _, _)
Scan(text, o, i) ==
    IF i > Len(ipv6_prefixes) THEN <<>>
    ELSE IF startswith(text, ipv6_prefixes[o[i]][1])
         THEN <<ipv6_prefixes[o[i]][2]>>
         ELSE Scan(text, o, i + 1)

\* item [0] >= ipv4: the search moves down
MovesDown(item, target) == Geq(item[1], target)

\* item [1] >= ipv4: the range matches
Matches(item, target) == Geq(item[2], target)

\* low = 0
FirstLow == 0

\* high = len (table) - 1
FirstHigh == Len(table) - 1

Warning(msg, text) == [level |-> "warning", msg |-> msg, text |-> text]

code_ui_base == "http://code.google.com/p/steam-limiter/"

\* self.request.get ('direct', 'about'): the default stands in for a
\* parameter that is not there
DirectOf(d) == IF d = <<>> THEN "about" ELSE d[1]

\* handler.request.get ('cb', '()')
CbOf(c) == IF c = <<>> THEN "()" ELSE c[1]

\* json.dumps of a string without a character to escape
Dumps(data) == "\"" \o data \o "\""

Write(data) == [kind |-> "write", data |-> data]

\* send (handler, data): the data as it is, or its JSON form inside the
\* call of the named callback
send(c, data) ==
    IF CbOf(c) = "()"
    THEN <<Write(data)>>
    ELSE (IF CbOf(c) # "" THEN <<Write(CbOf(c) \o "(")>> ELSE <<>>)
         \o <<Write(Dumps(data))>>
         \o (IF CbOf(c) # "" THEN <<Write(")")>> ELSE <<>>)

\* direct == '0' redirects as well
Respond_redirect(d, c, to) == <<[kind |-> "redirect", to |-> to]>>

\* the end of DownloadHandler.get: self.redirect (to) unless direct is '0',
\* else send (self, to)
Respond(d, c, to) ==
    IF DirectOf(d) # "0"
    THEN <<[kind |-> "redirect", to |-> to]>>
    ELSE send(c, to)

\* the locals of find_netblock outside a call
NoLocals ==
    /\ ip = IntArg(Zero)
    /\ ipv4 = Zero
    /\ low = 0
    /\ high = -1
    /\ mid = 0

\* the locals of find_netblock end with the call
Leave ==
    /\ ip' = IntArg(Zero)
    /\ ipv4' = Zero
    /\ low' = 0
    /\ high' = -1
    /\ mid' = 0

\* find_netblock returns r having logged lg, and its locals are gone; a
\* request goes on through the rest of bundle
Return(who, a, h, r, lg) ==
    /\ pc' = "idle"
    /\ Leave
    /\ ret' = <<r>>
    /\ IF who = "bundle" \/ who = "download"
       THEN /\ log' = lg \o <<[level |-> "info", source |-> a.text,
                               country |-> CountryOf(h), netblock |-> r]>>
            /\ IF r \in DOMAIN isps
               THEN result' = <<Compose(isps[r], CountryOf(h))>> /\ exc' = ""
               ELSE result' = <<>> /\ exc' = "TypeError"
       ELSE log' = lg /\ result' = <<>> /\ exc' = ""
    /\ response' = IF who = "download" /\ r \in DOMAIN isps
                   THEN Respond(direct', cb', Compose(isps[r], CountryOf(h)).download)
                   ELSE <<>>

\* int () raises in stringip_to_number, and nothing catches it
Raise(e) ==
    /\ pc' = "idle"
    /\ Leave
    /\ ret' = <<>>
    /\ exc' = e
    /\ log' = <<>>
    /\ result' = <<>>
    /\ response' = <<>>

\* find_netblock up to the search loop
Enter(who, a, h) ==
    /\ pc = "idle"
    /\ caller' = who
    /\ arg' = a
    /\ hdr' = h
    /\ UNCHANGED <<table, remembered>>
    /\ LET ip1 == Remap(a)
       IN  IF IsText(ip1) /\ Contains(ip1.text, ":")
           THEN \E o \in ItemOrders :
                   LET up == upper(ip1.text)
                       hit == Scan(up, o, 1)
                   IN  IF hit # <<>>
                       THEN Return(who, a, h, hit[1], <<>>)
                       ELSE Return(who, a, h, -1,
                              <<Warning("Unknown mapping for IPv6 address ", up)>>)
           ELSE IF IsText(ip1) /\ stringip_to_number(ip1.text) = <<>>
           THEN Raise("ValueError")
           ELSE /\ ip' = ip1
                /\ ipv4' = IF IsText(ip1) THEN stringip_to_number(ip1.text)[1]
                                         ELSE ip1.num
                /\ low' = FirstLow
                /\ high' = FirstHigh
                /\ mid' = 0
                /\ pc' = "loop"
                /\ ret' = <<>>
                /\ exc' = ""
                /\ log' = <<>>
                /\ result' = <<>>
                /\ response' = <<>>

\* a direct call of find_netblock
find_netblock(a) ==
    /\ UNCHANGED <<direct, cb, status, sent>>
    /\ Enter("find_netblock", a, <<>>)

\* a request served through bundle
bundle(source, h) ==
    /\ UNCHANGED <<direct, cb, status, sent>>
    /\ Enter("bundle", source, h)

\* DownloadHandler.get: the detail page for direct == 'about', without a
\* call of bundle, and else the download of the bundle
DownloadHandler_get(d, c, source, h) ==
    /\ pc = "idle"
    /\ direct' = d
    /\ cb' = c
    /\ UNCHANGED <<status, sent>>
    /\ IF DirectOf(d) = "about"
       THEN /\ caller' = "download"
            /\ arg' = source
            /\ hdr' = h
            /\ response' = Respond(d, c, code_ui_base \o "downloads/detail?name=" \o latest_file)
            /\ ret' = <<>>
            /\ exc' = ""
            /\ log' = <<>>
            /\ result' = <<>>
            /\ UNCHANGED <<table, pc, ip, ipv4, low, high, mid, remembered>>
       ELSE Enter("download", source, h)

Owner == "nigel.bree@gmail.com"

\* the mail goes out whatever the status
Fallback_always(st, text, kind) ==
    <<[op |-> "send_mail", to |-> Owner,
       subject |-> "New " \o kind \o " posted", body |-> text]>>

\* the lines after send_message: return on NO_ERROR, else mail.send_mail
Fallback(st, text, kind) ==
    IF st = "NO_ERROR"
    THEN <<>>
    ELSE <<[op |-> "send_mail", to |-> Owner,
            subject |-> "New " \o kind \o " posted", body |-> text]>>

\* notifyOwner (text, kind), with the status send_message comes back with
notifyOwner(text, kind) ==
    /\ pc = "idle"
    /\ \E st \in XmppStatuses :
          /\ status' = st
          /\ sent' = <<[op |-> "send_invite", to |-> Owner],
                       [op |-> "send_message", to |-> Owner,
                        body |-> "Posted " \o kind \o ": " \o text]>>
                     \o Fallback(st, text, kind)
    /\ UNCHANGED <<table, pc, caller, arg, hdr, ip, ipv4, low, high, mid, ret,
                   exc, log, result, remembered, direct, cb, response>>

\* FeedbackHandler.post: nothing is stored or notified for an empty text
FeedbackHandler_post(text) ==
    /\ text # ""
    /\ notifyOwner(text, "feedback")

\* UploadRuleHandler.post: nothing is stored or notified for an empty rule
UploadRuleHandler_post(isp, rule, note) ==
    /\ rule # ""
    /\ notifyOwner(isp \o " ==> " \o rule \o "\n" \o note, "rule")

\* TestReportHandler.post, served when no other request is
TestReportHandler_post(test, res) ==
    /\ pc = "idle"
    /\ notifyOwner(test \o " ==> " \o res \o "\n", "test")

\* moving up starts again at mid
Iterate_samemid ==
    /\ pc = "loop"
    /\ low <= high
    /\ UNCHANGED <<table, caller, arg, hdr, remembered, direct, cb, status, sent>>
    /\ LET m == (low + high) \div 2
           item == table[m + 1]
       IN  IF MovesDown(item, ipv4)
           THEN /\ mid' = m
                /\ high' = m - 1
                /\ UNCHANGED <<ip, ipv4, low, pc, ret, exc, log, result, response>>
           ELSE IF Matches(item, ipv4)
           THEN Return(caller, arg, hdr, item[3], <<>>)
           ELSE /\ mid' = m
                /\ low' = m
                /\ UNCHANGED <<ip, ipv4, high, pc, ret, exc, log, result, response>>

\* one pass through the body of the while loop
Iterate ==
    /\ pc = "loop"
    /\ low <= high
    /\ UNCHANGED <<table, caller, arg, hdr, remembered, direct, cb, status, sent>>
    /\ LET m == (low + high) \div 2
           item == table[m + 1]
       IN  IF MovesDown(item, ipv4)
           THEN /\ mid' = m
                /\ high' = m - 1
                /\ UNCHANGED <<ip, ipv4, low, pc, ret, exc, log, result, response>>
           ELSE IF Matches(item, ipv4)
           THEN Return(caller, arg, hdr, item[3], <<>>)
           ELSE /\ mid' = m
                /\ low' = m + 1
                /\ UNCHANGED <<ip, ipv4, high, pc, ret, exc, log, result, response>>

\* the loop ends without a match
Exhausted ==
    /\ pc = "loop"
    /\ low > high
    /\ UNCHANGED <<table, caller, arg, hdr, remembered, direct, cb, status, sent>>
    /\ Return(caller, arg, hdr, -1,
              IF ip.type = "str"
              THEN <<Warning("Unknown mapping for IPv4 address ", ip.text)>>
              ELSE <<>>)

\* an observer keeps the call that has just returned, to hold later calls
\* of the same argument against it
Remember ==
    /\ pc = "idle"
    /\ ret # <<>>
    /\ remembered' = <<[arg |-> arg, ret |-> ret[1]]>>
    /\ UNCHANGED <<table, pc, caller, arg, hdr, ip, ipv4, low, high, mid, ret,
                   exc, log, result, direct, cb, response, status, sent>>

\* ----------------------------------------------------------- specification
InitRest ==
    /\ pc = "idle"
    /\ caller = "find_netblock"
    /\ arg = IntArg(Zero)
    /\ hdr = <<>>
    /\ NoLocals
    /\ ret = <<>>
    /\ exc = ""
    /\ log = <<>>
    /\ result = <<>>
    /\ remembered = <<>>
    /\ direct = <<>>
    /\ cb = <<>>
    /\ response = <<>>
    /\ status = ""
    /\ sent = <<>>

\* any sorted table of disjoint ranges
Init == table \in Tables /\ InitRest

\* the configured table
InitCfg == table = ip_table /\ InitRest

\* the addresses called with over the generated tables: those of the pool as
\* str and as integers, the loopback address as text and as integer, and
\* one text outside the pool
PoolArgs == {StrArg(PoolText(k)) : k \in PoolOctets} \cup
            {IntArg(PoolAddr(k)) : k \in PoolOctets} \cup
            {StrArg(Loopback), IntArg(Pack(127, 0, 0, 1)), UnicodeArg(OutsideQuad)}

Next ==
    \/ \E a \in PoolArgs : find_netblock(a)
    \/ Iterate
    \/ Exhausted
    \/ Remember

NextCfg ==
    \/ \E a \in Args : find_netblock(a)
    \/ \E s \in Sources, h \in Headers : bundle(s, h)
    \/ Iterate
    \/ Exhausted
    \/ Remember

Spec == Init /\ [][Next]_vars

\* a call that has started goes on: the loop is sequential code
SpecFair == Spec /\ WF_vars(Iterate) /\ WF_vars(Exhausted)

SpecCfg == InitCfg /\ [][NextCfg]_vars

\* the handlers of the download and of the posts that notify the owner
NextWeb ==
    \/ \E d \in Directs, c \in Callbacks, s \in DownloadSources, h \in Headers :
          DownloadHandler_get(d, c, s, h)
    \/ Iterate
    \/ Exhausted
    \/ \E t \in FormTexts : FeedbackHandler_post(t)
    \/ \E i, r, n \in FormTexts : UploadRuleHandler_post(i, r, n)
    \/ \E t, r \in FormTexts : TestReportHandler_post(t, r)

SpecWeb == InitCfg /\ [][NextWeb]_vars


\* -------------------------------------------------------------- properties
\* the address an argument stands for: the integer itself, or the four
\* octets its text was written from
IsQuadArg(a) == a.type = "int" \/ \E q \in Quads : Dotted(q) = a.text

Address(a) ==
    IF a.type = "int" THEN a.num
    ELSE LET q == CHOOSE q \in Quads : Dotted(q) = a.text
         IN  Pack(q[1], q[2], q[3], q[4])

\* a call that goes to the range table under the address it was given
IsLookup(a) == IsQuadArg(a) /\ ~ (IsText(a) /\ a.text = Loopback)

\* low <= a <= high
Within(range, a) == Geq(a, range[1]) /\ Geq(range[2], a)

\* the ISP of the range of t that contains a, -1 when there is none
Containing(t, a) ==
    IF \E i \in 1..Len(t) : Within(t[i], a)
    THEN t[CHOOSE i \in 1..Len(t) : Within(t[i], a)][3]
    ELSE -1

\* the ISP of the first entry of ipv6_prefixes, in the order of the
\* literal, that text starts with, -1 when there is none
FirstPrefix(text) ==
    LET hits == {i \in 1..Len(ipv6_prefixes) : startswith(text, ipv6_prefixes[i][1])}
    IN  IF hits = {} THEN -1
        ELSE ipv6_prefixes[CHOOSE i \in hits : \A j \in hits : i <= j][2]

Returned == pc = "idle" /\ ret # <<>>

\* C1: the IPv4 lookup returns the ISP of the range with low <= a <= high,
\* both bounds included, and -1 exactly when no range contains a.
C1_LookupInclusive ==
    (Returned /\ IsLookup(arg)) => ret[1] = Containing(table, Address(arg))

\* C2: two addresses inside the same range, its low bound included, are
\* given the same ISP index.
C2_SameRangeSameIsp ==
    (/\ Returned
     /\ remembered # <<>>
     /\ IsLookup(arg)
     /\ IsLookup(remembered[1].arg)
     /\ \E i \in 1..Len(table) :
           /\ Within(table[i], Address(arg))
           /\ Within(table[i], Address(remembered[1].arg)))
    => ret[1] = remembered[1].ret

IinetUpper == <<"2", "0", "0", "1", ":", "4", "4", "7", "8", ":", "A", "B", "C", "D", ":", ":", "1">>

IinetLower == <<"2", "0", "0", "1", ":", "4", "4", "7", "8", ":", "a", "b", "c", "d", ":", ":", "1">>

\* C3: an address with a colon is given the ISP of the first configured
\* prefix its upper-cased text starts with, or -1 when there is none; the
\* letter case of the input makes no difference: 2001:4478:ABCD::1 is given
\* 12 in either case, and 2001:44b8:1::2 is given 11 under the prefix
\* 2001:44B8:.
C3_Ipv6Prefix ==
    (pc = "idle" /\ IsText(arg) /\ Contains(arg.text, ":"))
    => /\ ret = <<FirstPrefix(upper(arg.text))>>
       /\ exc = ""
       /\ (arg.text \in {IinetUpper, IinetLower} => ret = <<12>>)
       /\ (arg.text = InternodeText => ret = <<11>>)

C3_Witness ==
    /\ pc = "idle"
    /\ arg.text = IinetLower
    /\ ret = <<12>>
    /\ caller = "find_netblock"

\* C4: classifying a malformed IPv4 literal ends in an explicit failure and
\* never in a returned index.
C4_MalformedFails ==
    (pc = "idle" /\ IsText(arg) /\ arg.text \in Malformed)
    => (ret = <<>> /\ exc = "ValueError")

\* a well-formed address that is in no range and under no prefix
Unmatched(a) ==
    /\ IsText(a)
    /\ \/ a.text \in Ipv6Texts /\ FirstPrefix(upper(a.text)) = -1
       \/ IsLookup(a) /\ Containing(table, Address(a)) = -1

UnknownFilter == "# No specific content server for your ISP"

\* C5: for an address that matches no range and no prefix bundle returns
\* normally, with the name and the filter rule of the Unknown record.
C5_UnknownBundle ==
    (pc = "idle" /\ caller = "bundle" /\ Unmatched(arg))
    => /\ exc = ""
       /\ result # <<>>
       /\ result[1].ispname = "Unknown"
       /\ result[1].filterrule = UnknownFilter

C5_Witness ==
    /\ pc = "idle"
    /\ caller = "bundle"
    /\ arg.text = OutsideQuad
    /\ result # <<>>
    /\ result[1].ispname = "Unknown"

\* C6: ispname is the name of the record, filterip its server, allow its
\* allow rule or the empty string, filterrule its filter rule or else its
\* server; filterrule is not empty when the server is not.
C6_BundleFields ==
    (pc = "idle" /\ caller = "bundle" /\ result # <<>>)
    => LET isp == isps[ret[1]]
           b == result[1]
       IN  /\ b.ispname = isp.name
           /\ b.filterip = isp.server
           /\ b.allow = (IF "allow" \in DOMAIN isp THEN isp.allow ELSE "")
           /\ b.filterrule = (IF "filter" \in DOMAIN isp THEN isp.filter ELSE isp.server)
           /\ (isp.server # "" => b.filterrule # "")

C6_Witness ==
    /\ pc = "idle"
    /\ caller = "bundle"
    /\ ret = <<11>>
    /\ result # <<>>
    /\ result[1].allow = "//steam.cdn.on.net=*"
    /\ result[1].filterrule = InternodeRule

\* C7: the bundle has a 'test' field exactly when the record has one, and
\* then it is the record's.
C7_TestField ==
    (pc = "idle" /\ caller = "bundle" /\ result # <<>>)
    => LET isp == isps[ret[1]]
           b == result[1]
       IN  /\ ("test" \in DOMAIN b) <=> ("test" \in DOMAIN isp)
           /\ ("test" \in DOMAIN b) => (b.test = isp.test)

C7_Witness ==
    /\ pc = "idle"
    /\ caller = "bundle"
    /\ ret = <<30>>
    /\ result # <<>>
    /\ "test" \in DOMAIN result[1]
    /\ result[1].test["steam.wa.co.za icmp *.wa.co.za"][0].ispname = "WebAfrica/IS dual ISP"

\* C8: find_netblock ('127.0.0.1') returns the index find_netblock
\* ('203.167.129.4') returns, and that index is not -1.
C8_Loopback ==
    (/\ Returned
     /\ remembered # <<>>
     /\ IsText(arg)
     /\ IsText(remembered[1].arg)
     /\ arg.text = Loopback
     /\ remembered[1].arg.text = Substitute)
    => (ret[1] = remembered[1].ret /\ ret[1] # -1)

C8_Witness ==
    /\ Returned
    /\ remembered # <<>>
    /\ arg = StrArg(Loopback)
    /\ remembered[1].arg = StrArg(Substitute)
    /\ ret = <<0>>

\* the indices the classifier can return
ClassifierIndices ==
    {-1} \cup {table[i][3] : i \in 1..Len(table)}
         \cup {ipv6_prefixes[i][2] : i \in 1..Len(ipv6_prefixes)}

BundleFields == {"latest", "download", "country", "ispname", "filterip",
                 "filterrule", "allow"}

\* C9: every index the classifier can return has a record in isps, and for
\* every address that classifies bundle returns a complete bundle.
C9_AlwaysBundle ==
    /\ ClassifierIndices \subseteq DOMAIN isps
    /\ (pc = "idle" /\ caller = "bundle" /\ ret # <<>>)
       => /\ exc = ""
          /\ result # <<>>
          /\ BundleFields \subseteq DOMAIN result[1]

C9_Witness ==
    /\ pc = "idle"
    /\ caller = "bundle"
    /\ ret = <<2>>
    /\ result # <<>>
    /\ result[1].ispname = "Snap! New Zealand"
    /\ result[1].country = "NZ"

\* C10: two calls of find_netblock with the same address return the same
\* index, whatever was looked up in between.
C10_Deterministic ==
    (Returned /\ remembered # <<>> /\ remembered[1].arg = arg)
    => ret[1] = remembered[1].ret

C10_Witness ==
    /\ Returned
    /\ remembered # <<>>
    /\ remembered[1].arg = arg
    /\ arg = StrArg(InternodeText)
    /\ ret = <<11>>

\* an integer and the text of the same four octets, one remembered and the
\* other just returned
SameOctets(a, b) ==
    /\ a.type = "int"
    /\ IsText(b)
    /\ IsQuadArg(b)
    /\ Address(b) = a.num

\* C11 as claimed: an integer address and the dotted quad of the same four
\* octets are given the same ISP index, whatever the octets.
C11_IntegerAndText ==
    (/\ Returned
     /\ remembered # <<>>
     /\ \/ SameOctets(arg, remembered[1].arg)
        \/ SameOctets(remembered[1].arg, arg))
    => ret[1] = remembered[1].ret

\* C11 as amended: an integer address and the dotted quad of the same four
\* octets are given the same ISP index, unless the text is the loopback
\* literal 127.0.0.1, which is looked up as 203.167.129.4.
C11_IntegerAndTextButLoopback ==
    (/\ Returned
     /\ remembered # <<>>
     /\ \/ SameOctets(arg, remembered[1].arg) /\ remembered[1].arg.text # Loopback
        \/ SameOctets(remembered[1].arg, arg) /\ arg.text # Loopback)
    => ret[1] = remembered[1].ret

C11_Witness ==
    /\ Returned
    /\ remembered # <<>>
    /\ remembered[1].arg = IntArg(Pack(203, 167, 129, 4))
    /\ arg = StrArg(Substitute)
    /\ ret = <<30>>
    /\ remembered[1].ret = 30
    /\ Len(table) = 2

\* the bundle of the same record for a request without country header
\* agrees with b in every field but 'country'
CountryApart(b, isp) ==
    LET plain == Compose(isp, "Unknown")
    IN  /\ DOMAIN b = DOMAIN plain
        /\ \A f \in DOMAIN b \ {"country"} : b[f] = plain[f]

\* C12 as claimed: country is the hint whenever the request carries one and
\* "Unknown" when it carries none, and no other field depends on it.
C12_CountryIsHint ==
    (pc = "idle" /\ caller = "bundle" /\ result # <<>>)
    => /\ hdr # <<>> => result[1].country = hdr[1]
       /\ hdr = <<>> => result[1].country = "Unknown"
       /\ CountryApart(result[1], isps[ret[1]])

\* C12 as amended: country is the hint when the request carries a hint that
\* is not empty, and "Unknown" when it carries none or an empty one; no
\* other field depends on it.
C12_CountryIsHintUnlessEmpty ==
    (pc = "idle" /\ caller = "bundle" /\ result # <<>>)
    => /\ (hdr # <<>> /\ hdr[1] # "") => result[1].country = hdr[1]
       /\ (hdr = <<>> \/ hdr = <<"">>) => result[1].country = "Unknown"
       /\ CountryApart(result[1], isps[ret[1]])

C12_Witness ==
    /\ pc = "idle"
    /\ caller = "bundle"
    /\ hdr = <<"NZ">>
    /\ ret = <<0>>
    /\ result # <<>>
    /\ result[1].country = "NZ"
    /\ result[1].ispname = "TelstraClear New Zealand"

\* C13: the search loop ends for every table, the empty one included: a
\* pass through the loop returns or leaves a strictly smaller interval
\* [low, high], the interval is never shorter than empty, and the index
\* inspected is an index of the table.
C13_SearchTerminates ==
    /\ [](pc = "loop" =>
            /\ high - low >= -1
            /\ 0 <= low
            /\ high <= Len(table) - 1
            /\ low <= high => (low + high) \div 2 \in 0..(Len(table) - 1))
    /\ [][pc = "loop" => (pc' = "idle" \/ high' - low' < high - low)]_vars
    /\ (pc = "loop") ~> (pc = "idle")

C13_Witness ==
    /\ pc = "loop"
    /\ Len(table) = 3
    /\ mid = 1
    /\ low = 2
    /\ high = 2

C13_EmptyWitness ==
    /\ pc = "loop"
    /\ Len(table) = 0
    /\ low > high

\* C14: a call of find_netblock that returns -1 has written a warning
\* about the address to the log before it returns, whether it was given
\* IPv6 text, IPv4 text or a number.
C14_MissLogged ==
    (Returned /\ ret = <<-1>>) =>
        \E i \in 1..Len(log) : log[i].level = "warning"

\* every order in which ipv6_prefixes.items () can hand out the entries
AllOrders ==
    {o \in [1..Len(ipv6_prefixes) -> 1..Len(ipv6_prefixes)] :
        \A i, j \in 1..Len(ipv6_prefixes) : o[i] = o[j] => i = j}

\* C15: no configured IPv6 prefix is the beginning of another one that has
\* a different ISP index, and so the index returned for an address with a
\* colon is the one the scan finds in every order of the entries.
C15_OrderIndependent ==
    /\ \A i, j \in 1..Len(ipv6_prefixes) :
          startswith(ipv6_prefixes[j][1], ipv6_prefixes[i][1])
          => ipv6_prefixes[i][2] = ipv6_prefixes[j][2]
    /\ (Returned /\ IsText(arg) /\ Contains(arg.text, ":")) =>
          \A o \in AllOrders :
              Scan(upper(arg.text), o, 1) = (IF ret = <<-1>> THEN <<>> ELSE ret)

C15_Witness ==
    /\ Returned
    /\ arg.text = <<"2", "0", "0", "1", ":", "4", "4", "7", "9", ":", "f", ":", ":">>
    /\ ret = <<12>>
    /\ Cardinality(AllOrders) = 120

\* the places of sent where op was called
Calls(op) == {i \in 1..Len(sent) : sent[i].op = op}

\* C16: a call of notifyOwner sends the invitation and then the message;
\* the e-mail is sent exactly when the message came back with a status
\* other than NO_ERROR, never on success, and never more than once.
C16_NotifyOwner ==
    sent # <<>> =>
        /\ Calls("send_invite") = {1}
        /\ Calls("send_message") = {2}
        /\ (Calls("send_mail") # {}) <=> (status # "NO_ERROR")
        /\ Cardinality(Calls("send_mail")) <= 1
        /\ \A i \in Calls("send_mail") : i > 2

C16_Witness ==
    /\ status = "OTHER_ERROR"
    /\ Len(sent) = 3
    /\ sent[2].body = "Posted rule: slow ==> slow\n"
    /\ sent[3].op = "send_mail"
    /\ sent[3].subject = "New rule posted"

C16_SuccessWitness ==
    /\ status = "NO_ERROR"
    /\ Len(sent) = 2
    /\ sent[2].body = "Posted feedback: slow"

DetailPage == code_ui_base \o "downloads/detail?name=" \o latest_file

FileUrl == code_file_base \o latest_file

\* a download request has been served or has failed
Served == pc = "idle" /\ caller = "download"

C17_RedirectWitness ==
    /\ Served
    /\ direct = <<"1">>
    /\ ret = <<-1>>
    /\ response = <<[kind |-> "redirect",
                     to |-> "http://steam-limiter.googlecode.com/files/steamlimit-0.6.1.0.exe"]>>

C17_FailedWitness ==
    /\ Served
    /\ direct = <<"1">>
    /\ exc = "ValueError"
    /\ response = <<>>

====
